---- MODULE Spec2Model ----
(***************************************************************************)
(* Whale tracker backend (backend/index.js): four timer-driven poll cycles *)
(* that fetch, deduplicate, normalize and cache large transfers, the alert *)
(* dispatch with its suppression set, the 6-hour reset, and the two HTTP   *)
(* handlers GET /transactions and POST /subscribe.                         *)
(*                                                                         *)
(* JavaScript runs each callback to its next await without interruption,   *)
(* so one action is one such run: from a timer tick or the resolution of   *)
(* an awaited promise to the next await (or the end of the function).      *)
(***************************************************************************)
EXTENDS Integers, Sequences, FiniteSets, TLC

\* ------------------------------------------------------------------ bounds
\* Longest raw record list of one query-service response.
MaxBatch == 2
\* Timer ticks of the polling scheduler in one behaviour.
MaxTicks == 2
\* Poll cycles that can be in flight at once.
MaxTasks == 2

\* ------------------------------------------------------------ value sets
\* The four networks the scheduler polls.
Networks == {"ethereum", "bsc", "bitcoin", "solana"}

\* Transaction hashes / signatures the query service can report.
Hashes == {"h1", "h2"}

\* Amounts (value for a Bitcoin output) the query service can report.
Amounts == {100, 101}

\* Block times the query service can report (hours since the epoch).
Times == {7, 8}

\* Addresses the query service can report as sender or receiver.
Addresses == {"0xa"}

\* Time zones of the machine the server runs on.
Zones == {"UTC", "America/Chicago"}

\* The hour at which daylight saving time starts in America/Chicago.
DstStart == 8

\* Contact addresses and thresholds held by the subscriber store.
Emails == {"a@x.io", "b@x.io"}

Thresholds == {101}

\* Row order of the select on the subscriptions table.
EmailOrder == <<"a@x.io", "b@x.io">>

Tasks == 1 .. MaxTasks

\* ------------------------------------------------------------------ state
VARIABLES
  whaleCache,   \* cache property name -> list of cached transactions
  alertedTxs,   \* the suppression set: keys <<chain, hash>>
  store,        \* the subscriptions table: email -> threshold
  tasks,        \* the poll cycles in flight, one record per slot
  ticks,        \* timer ticks so far
  response,     \* the HTTP exchange of the step just taken: <<>> when the step
                \* is no request, else <<[route, ...]>> with the request's
                \* fields and the response sent
  zone,         \* the time zone of the machine (read by getTimezoneOffset)
  exited        \* <<>> while the process runs, else <<[error, network]>>: the
                \* uncaught rejection the process has ended with

vars == <<whaleCache, alertedTxs, store, tasks, ticks, response, zone, exited>>

\* ---------------------------------------------------------- pure helpers
\* String.prototype.toUpperCase on the network names passed to fetchEthOrBsc.
ToUpperCase(network) ==
  CASE network = "ethereum" -> "ETHEREUM"
    [] network = "bsc" -> "BSC"
    [] OTHER -> network

\* The whaleCache property a cycle of `network` assigns (and the chain it
\* passes to processAndAlert).
CacheKey(network) ==
  CASE network = "bitcoin" -> "BTC"
    [] network = "solana" -> "SOL"
    [] OTHER -> ToUpperCase(network)

\* The property names of whaleCache, in creation order (Object.values order).
CacheKeyOrder == <<"ETH", "BSC", "BTC", "SOL", "ETHEREUM">>

InitialCacheKeys == {"ETH", "BSC", "BTC", "SOL"}

\* Client-side floor of the Bitcoin cycle.
minAmount == 100

\* The fixed shift of toCST, in hours.
CstShift == 6

\* date.getTimezoneOffset() for the instant t, in hours (UTC minus local
\* time): 0 on a UTC machine; in America/Chicago 6 under standard time and 5
\* once daylight saving time has started.
getTimezoneOffset(t) ==
  IF zone = "UTC" THEN 0 ELSE IF t < DstStart THEN 6 ELSE 5

\* An optional field of a raw record: <<>> when absent, <<v>> when present.
Optional(S) == {<<>>} \cup {<<v>> : v \in S}

\* toCST: the wall-clock reading written into the cache for block time t.
toCST(isoString) == isoString[1] + getTimezoneOffset(isoString[1]) - CstShift

\* new Date(undefined) is an invalid date, whose toISOString throws.
toCSTThrows(isoString) == isoString = <<>>

\* new Date(timestamp) of a cached "... CST" string, in hours: the wall-clock
\* reading is taken as UTC-6, whatever the zone of the machine.
ParseTimestamp(ts) == ts + CstShift

\* Raw records of a response: hash, amount (or value), block time, sender
\* and receiver address.
RawRecords ==
  [hash : Hashes, amount : Amounts, time : Optional(Times),
   sender : Optional(Addresses), receiver : Optional(Addresses)]

RECURSIVE SeqsUpTo(_, _)
SeqsUpTo(S, n) ==
  IF n = 0 THEN {<<>>}
  ELSE LET shorter == SeqsUpTo(S, n - 1)
       IN shorter \cup {Append(s, x) : s \in {q \in shorter : Len(q) = n - 1}, x \in S}

RawResponses == SeqsUpTo(RawRecords, MaxBatch)

\* Mutant of DedupByHash: every record is kept.
DedupByHashKeepAll(txs, seen) == txs

\* Mutant of DedupByHash: of the records of one hash the last one is kept.
RECURSIVE DedupByHashKeepLast(_, _)
DedupByHashKeepLast(txs, seen) ==
  IF txs = <<>> THEN <<>>
  ELSE IF \E k \in 2 .. Len(txs) : txs[k].hash = Head(txs).hash
    THEN DedupByHashKeepLast(Tail(txs), seen)
  ELSE <<Head(txs)>> \o DedupByHashKeepLast(Tail(txs), seen)

\* fetchEthOrBsc / fetchSolana: filter with a `seen` set keyed by the
\* record's hash (signature); the first record of each hash is kept.
RECURSIVE DedupByHash(_, _)
DedupByHash(txs, seen) ==
  IF txs = <<>> THEN <<>>
  ELSE LET tx == Head(txs)
       IN IF tx.hash \in seen
            THEN DedupByHash(Tail(txs), seen)
            ELSE <<tx>> \o DedupByHash(Tail(txs), seen \cup {tx.hash})

\* Mutant of FilterBitcoin: the hash is remembered before the value is tested.
RECURSIVE FilterBitcoinDedupFirst(_, _)
FilterBitcoinDedupFirst(outputs, seen) ==
  IF outputs = <<>> THEN <<>>
  ELSE LET o == Head(outputs)
       IN IF o.hash \in seen
            THEN FilterBitcoinDedupFirst(Tail(outputs), seen)
          ELSE IF o.amount > minAmount
            THEN <<o>> \o FilterBitcoinDedupFirst(Tail(outputs), seen \cup {o.hash})
          ELSE FilterBitcoinDedupFirst(Tail(outputs), seen \cup {o.hash})

\* fetchBitcoin: o.value > minAmount && !seen.has(hash) && seen.add(hash).
RECURSIVE FilterBitcoin(_, _)
FilterBitcoin(outputs, seen) ==
  IF outputs = <<>> THEN <<>>
  ELSE LET o == Head(outputs)
       IN IF o.amount > minAmount /\ o.hash \notin seen
            THEN <<o>> \o FilterBitcoin(Tail(outputs), seen \cup {o.hash})
            ELSE FilterBitcoin(Tail(outputs), seen)

\* The deduplicated raw list of a cycle.
Deduped(network, raw) ==
  IF network = "bitcoin" THEN FilterBitcoin(raw, {}) ELSE DedupByHash(raw, {})

\* tx.sender?.address of a raw record (undefined when absent); fetchBitcoin
\* writes the literal '' instead.
SenderOf(network, r) == IF network = "bitcoin" THEN <<"">> ELSE r.sender

ReceiverOf(network, r) == IF network = "bitcoin" THEN <<"">> ELSE r.receiver

\* The object literal each cycle maps a raw record to. sender and receiver
\* are <<>> when undefined. `instant` is no property of the object: it
\* records the block time the timestamp string was made from.
Normalize(network, r) ==
  [chain |-> CacheKey(network), amount |-> r.amount,
   sender |-> SenderOf(network, r), receiver |-> ReceiverOf(network, r),
   timestamp |-> toCST(r.time), txHash |-> r.hash, instant |-> r.time[1]]

\* Array.prototype.map with the object literal: it throws when toCST does.
MapThrows(deduped) == \E k \in 1 .. Len(deduped) : toCSTThrows(deduped[k].time)

MapNormalize(network, deduped) ==
  [k \in 1 .. Len(deduped) |-> Normalize(network, deduped[k])]

AllCacheKeys == {CacheKeyOrder[k] : k \in 1 .. Len(CacheKeyOrder)}

\* A slot with no cycle in it. The fields after `j` record what the dispatch
\* of the cycle has done so far:
\*   pre      indices of txs whose key was in alertedTxs when processAndAlert was called
\*   skipped  indices skipped by the has-check
\*   marked   indices whose key this dispatch added
\*   sent     <<index, email>> of every sendAlertEmail call made
\*   payload  the second argument of the last sendAlertEmail call, if any
\*   failed   <<index, email>> of the first sendAlertEmail call that threw, if any
\*   repeats  the response just received named some hash more than once
\*   received <<raw>>: the record list of the response just received
\*   subsErr  the subscriber read returned an error
\*   clr      alertedTxs was cleared since processAndAlert was called
IdleTask ==
  [pc |-> "idle", network |-> "ethereum", txs |-> <<>>, subs |-> <<>>,
   i |-> 1, j |-> 0, pre |-> {}, skipped |-> {}, marked |-> {},
   sent |-> {}, payload |-> <<>>, failed |-> <<>>, subsErr |-> FALSE,
   clr |-> FALSE, repeats |-> FALSE, received |-> <<>>]

\* The states of the subscriptions table (unique by email).
Tables == UNION {[D -> Thresholds] : D \in SUBSET Emails}

Free(t) == tasks[t].pc = "idle"

Chain(task) == CacheKey(task.network)

Init ==
  /\ whaleCache = [k \in InitialCacheKeys |-> <<>>]
  /\ alertedTxs = {}
  /\ store \in Tables
  /\ tasks = [t \in Tasks |-> IdleTask]
  /\ ticks = 0
  /\ response = <<>>
  /\ zone \in Zones
  /\ exited = <<>>

\* The process has not exited.
Running == exited = <<>>

\* ------------------------------------------------------- processAndAlert
\* const txKey = `${chain}:${tx.txHash || tx.signature || tx.hash}`
TxKey(chain, tx) == <<chain, tx.txHash>>

\* Mutant of IsSuppressed: the has-check is dropped.
IsSuppressedNever(alerted, txKey) == FALSE

\* alertedTxs.has(txKey)
IsSuppressed(alerted, txKey) == txKey \in alerted

\* Mutant of Matches: a strict comparison.
MatchesStrict(tx, sub) == tx.amount > sub.threshold

\* Number(tx.amount) >= Number(sub.threshold)
Matches(tx, sub) == tx.amount >= sub.threshold

\* a || b of two optional strings: undefined and '' are falsy.
OrElse(a, b) == IF a \in {<<>>, <<"">>} THEN b ELSE a

\* v?.address where v is a string or undefined: there is no such property.
AddressOf(v) == <<>>

\* The second argument of sendAlertEmail, built from an entry tx of the batch
\* (tx.address, tx.block, tx.signature and tx.hash are undefined on it).
AlertPayload(chain, tx) ==
  [chain |-> chain,
   amount |-> tx.amount,
   sender |-> OrElse(AddressOf(tx.sender), OrElse(<<>>, <<"">>)),
   receiver |-> OrElse(AddressOf(tx.receiver), <<"">>),
   timestamp |-> tx.timestamp,
   txHash |-> tx.txHash]

\* Mutant of MarkAlerted: the key is not added.
MarkAlertedNever(alerted, txKey) == alerted

\* alertedTxs.add(txKey), reached after the subscriber loop of a transaction.
MarkAlerted(alerted, txKey) == alerted \cup {txKey}

\* Mutant of OnSendError: no try/catch, the exception ends the dispatch.
OnSendErrorAbort(task) ==
  [task EXCEPT !.failed = IF @ = <<>> THEN <<task.i, task.subs[task.j].email>> ELSE @,
               !.i = Len(task.txs) + 1, !.j = 0]

\* catch (err) { console.error(...) }: the subscriber loop goes on.
OnSendError(task) ==
  [task EXCEPT !.failed = IF @ = <<>> THEN <<task.i, task.subs[task.j].email>> ELSE @,
               !.j = @ + 1]

\* sendAlertEmail resolved: the subscriber loop goes on.
OnSendOk(task) == [task EXCEPT !.j = @ + 1]

\* The two nested loops of processAndAlert, run from position (i, j) to the
\* next awaited sendAlertEmail or to the end of the batch. j = 0 is the
\* position before the has-check of transaction i.
RECURSIVE RunLoop(_, _)
RunLoop(task, alerted) ==
  IF task.i > Len(task.txs)
    THEN [task |-> [task EXCEPT !.pc = "done"], alerted |-> alerted]
  ELSE
    LET tx == task.txs[task.i]
        txKey == TxKey(Chain(task), tx)
    IN IF task.j = 0
         THEN IF IsSuppressed(alerted, txKey)
                THEN RunLoop([task EXCEPT !.i = @ + 1, !.skipped = @ \cup {task.i}],
                             alerted)
                ELSE RunLoop([task EXCEPT !.j = 1], alerted)
       ELSE IF task.j > Len(task.subs)
         THEN RunLoop([task EXCEPT !.i = @ + 1, !.j = 0, !.marked = @ \cup {task.i}],
                      MarkAlerted(alerted, txKey))
       ELSE IF Matches(tx, task.subs[task.j])
         THEN [task |-> [task EXCEPT !.pc = "send",
                                     !.sent = @ \cup {<<task.i, task.subs[task.j].email>>},
                                     !.payload = <<AlertPayload(Chain(task), tx)>>],
               alerted |-> alerted]
       ELSE RunLoop([task EXCEPT !.j = @ + 1], alerted)

\* getSubscribers: the rows of the table, or [] when the read returns an error.
RECURSIVE RowsFrom(_, _)
RowsFrom(table, order) ==
  IF order = <<>> THEN <<>>
  ELSE IF Head(order) \in DOMAIN table
    THEN <<[email |-> Head(order), threshold |-> table[Head(order)]]>>
         \o RowsFrom(table, Tail(order))
  ELSE RowsFrom(table, Tail(order))

getSubscribers(table, error) == IF error THEN <<>> ELSE RowsFrom(table, EmailOrder)

\* ------------------------------------------------------------ poll cycles
\* Mutant of AssignSlot: the batch is appended to what the slot holds.
AssignSlotAppend(cache, key, batch) ==
  [k \in DOMAIN cache \cup {key} |->
     IF k = key
       THEN (IF key \in DOMAIN cache THEN cache[key] ELSE <<>>) \o batch
       ELSE cache[k]]

\* whaleCache[key] = batch (the property is created when it does not exist).
AssignSlot(cache, key, batch) ==
  [k \in DOMAIN cache \cup {key} |-> IF k = key THEN batch ELSE cache[k]]

\* The slot a new cycle runs in: the first free one.
FreeSlot == CHOOSE t \in Tasks : Free(t) /\ \A u \in Tasks : Free(u) => t <= u

\* A setInterval callback of the polling scheduler fires for `network`: the
\* cycle computes its window and awaits fetch.
Tick(network) ==
  /\ Running
  /\ ticks < MaxTicks
  /\ \E t \in Tasks : Free(t)
  /\ tasks' = [tasks EXCEPT ![FreeSlot] =
                 [IdleTask EXCEPT !.pc = "fetch", !.network = network]]
  /\ ticks' = ticks + 1
  /\ response' = <<>>
  /\ UNCHANGED <<whaleCache, alertedTxs, store, zone, exited>>

\* The promise of a cycle is rejected and nothing handles the rejection (the
\* timer callback drops the promise, no handler is installed on process).
\* Node.js 14 prints a warning and goes on; from version 15 on the rejection
\* is raised as an uncaught exception and the process exits: `fatal`.
Uncaught(error, network, fatal) ==
  IF fatal THEN <<[error |-> error, network |-> network]>> ELSE <<>>

\* Mutant of FetchFail: the failed cycle empties the slot of its chain.
FetchFailEmptiesSlot(t) ==
  /\ Running
  /\ tasks[t].pc = "fetch"
  /\ tasks' = [tasks EXCEPT ![t] = IdleTask]
  /\ whaleCache' = [whaleCache EXCEPT ![CacheKey(tasks[t].network)] = <<>>]
  /\ \E fatal \in BOOLEAN : exited' = Uncaught("FetchError", tasks[t].network, fatal)
  /\ response' = <<>>
  /\ UNCHANGED <<alertedTxs, store, ticks, zone>>

\* fetch or res.json() rejects: the async function ends with the exception
\* (nothing in the cycle catches it).
FetchFail(t) ==
  /\ Running
  /\ tasks[t].pc = "fetch"
  /\ tasks' = [tasks EXCEPT ![t] = IdleTask]
  /\ \E fatal \in BOOLEAN : exited' = Uncaught("FetchError", tasks[t].network, fatal)
  /\ response' = <<>>
  /\ UNCHANGED <<whaleCache, alertedTxs, store, ticks, zone>>

\* Mutant of StartDispatch: the early return on an empty batch is dropped.
StartDispatchAlwaysReads(task, batch, alerted) ==
  [task EXCEPT !.pc = "subs", !.txs = batch,
     !.pre = {k \in 1 .. Len(batch) : TxKey(Chain(task), batch[k]) \in alerted}]

\* processAndAlert up to its first await: the empty batch returns at once,
\* otherwise the subscriber read is awaited.
StartDispatch(task, batch, alerted) ==
  IF batch = <<>>
    THEN [task EXCEPT !.pc = "done"]
    ELSE [task EXCEPT !.pc = "subs", !.txs = batch,
            !.pre = {k \in 1 .. Len(batch) : TxKey(Chain(task), batch[k]) \in alerted}]

\* Some hash occurs twice in the record list.
Repeats(raw) ==
  \E a, b \in 1 .. Len(raw) : a # b /\ raw[a].hash = raw[b].hash

\* res.json() resolves with the record list `raw`: dedup, map, cache
\* assignment and the call of processAndAlert, in one run. When map throws,
\* the cycle ends there with an unhandled rejection.
FetchOk(t, raw) ==
  /\ Running
  /\ tasks[t].pc = "fetch"
  /\ LET network == tasks[t].network
         deduped == Deduped(network, raw)
     IN IF MapThrows(deduped)
          THEN /\ tasks' = [tasks EXCEPT ![t] = IdleTask]
               /\ \E fatal \in BOOLEAN : exited' = Uncaught("RangeError", network, fatal)
               /\ UNCHANGED whaleCache
          ELSE LET batch == MapNormalize(network, deduped)
               IN /\ whaleCache' = AssignSlot(whaleCache, CacheKey(network), batch)
                  /\ tasks' = [tasks EXCEPT ![t] =
                                 StartDispatch([@ EXCEPT !.repeats = Repeats(raw),
                                                         !.received = <<raw>>],
                                               batch, alertedTxs)]
                  /\ UNCHANGED exited
  /\ response' = <<>>
  /\ UNCHANGED <<alertedTxs, store, ticks, zone>>

\* The subscriber read resolves (with rows or with an error): the loops of
\* processAndAlert run to the first awaited send or to the end.
SubsDone(t, error) ==
  /\ Running
  /\ tasks[t].pc = "subs"
  /\ LET task == [tasks[t] EXCEPT !.subs = getSubscribers(store, error),
                                  !.subsErr = error, !.i = 1, !.j = 0,
                                  !.repeats = FALSE, !.received = <<>>]
         r == RunLoop(task, alertedTxs)
     IN /\ tasks' = [tasks EXCEPT ![t] = r.task]
        /\ alertedTxs' = r.alerted
  /\ response' = <<>>
  /\ UNCHANGED <<whaleCache, store, ticks, zone, exited>>

\* An awaited sendAlertEmail resolves or throws: the loops go on.
SendDone(t, ok) ==
  /\ Running
  /\ tasks[t].pc = "send"
  /\ LET task == IF ok THEN OnSendOk(tasks[t]) ELSE OnSendError(tasks[t])
         r == RunLoop(task, alertedTxs)
     IN /\ tasks' = [tasks EXCEPT ![t] = r.task]
        /\ alertedTxs' = r.alerted
  /\ response' = <<>>
  /\ UNCHANGED <<whaleCache, store, ticks, zone, exited>>

\* processAndAlert has returned: the cycle logs its records and ends.
Finish(t) ==
  /\ Running
  /\ tasks[t].pc = "done"
  /\ tasks' = [tasks EXCEPT ![t] = IdleTask]
  /\ response' = <<>>
  /\ UNCHANGED <<whaleCache, alertedTxs, store, ticks, zone, exited>>

\* setInterval(() => alertedTxs.clear(), 6h)
Clear ==
  /\ Running
  /\ alertedTxs' = {}
  /\ tasks' = [t \in Tasks |->
                 IF tasks[t].pc \in {"subs", "send", "done"}
                   THEN [tasks[t] EXCEPT !.clr = TRUE] ELSE tasks[t]]
  /\ response' = <<>>
  /\ UNCHANGED <<whaleCache, store, ticks, zone, exited>>

\* --------------------------------------------------------- POST /subscribe
\* Request bodies: the email and threshold fields as they arrive ("undefined"
\* stands for a field the body does not have).
BodyEmails == Emails \cup {"not-an-email", "undefined"}

ValidBodyThresholds == {"101"}

BodyThresholds == ValidBodyThresholds \cup {"-5", "0", "abc", "undefined"}

\* Number(threshold): <<n>>, or <<>> for NaN.
Number(threshold) ==
  CASE threshold = "101" -> <<101>>
    [] threshold = "-5" -> <<0 - 5>>
    [] threshold = "0" -> <<0>>
    [] OTHER -> <<>>

\* !email || !/^[^@\s]+@[^@\s]+\.[^@\s]+$/.test(email)
InvalidEmail(email) == email = "undefined" \/ email \notin Emails

\* Mutant of InvalidThreshold: zero and negative numbers pass.
InvalidThresholdNaNOnly(numThreshold) == numThreshold = <<>>

\* isNaN(numThreshold) || numThreshold <= 0
InvalidThreshold(numThreshold) == numThreshold = <<>> \/ numThreshold[1] <= 0

\* upsert({ email, threshold }, { onConflict: ['email'] })
Upsert(table, email, threshold) ==
  [e \in DOMAIN table \cup {email} |-> IF e = email THEN threshold ELSE table[e]]

\* The handler: 400 on invalid input, else the upsert, 500 when the store
\* returns an error, else success.
Subscribe(email, threshold, error) ==
  /\ Running
  /\ LET numThreshold == Number(threshold)
         status == IF InvalidEmail(email) \/ InvalidThreshold(numThreshold) THEN 400
                   ELSE IF error THEN 500 ELSE 200
     IN /\ store' = IF status = 200 THEN Upsert(store, email, numThreshold[1])
                    ELSE store
        /\ response' = <<[route |-> "POST /subscribe", status |-> status,
                           email |-> email, threshold |-> threshold]>>
  /\ UNCHANGED <<whaleCache, alertedTxs, tasks, ticks, zone, exited>>

\* ------------------------------------------------------- GET /transactions
\* req.query.chain: absent, or one of the chain names of the API.
QueryChains == Optional({"ETH", "BSC", "BTC", "SOL"})

\* Mutant of FlatValues: only the four properties of the initial object are read.
FlatValuesInitialKeys(cache, order) ==
  cache["ETH"] \o cache["BSC"] \o cache["BTC"] \o cache["SOL"]

\* Object.values(whaleCache).flat()
RECURSIVE FlatValues(_, _)
FlatValues(cache, order) ==
  IF order = <<>> THEN <<>>
  ELSE IF Head(order) \in DOMAIN cache
    THEN cache[Head(order)] \o FlatValues(cache, Tail(order))
  ELSE FlatValues(cache, Tail(order))

\* if (chain) allTxs = allTxs.filter(tx => tx.chain === chain)
RECURSIVE FilterChain(_, _)
FilterChain(allTxs, chain) ==
  IF chain = <<>> \/ allTxs = <<>> THEN allTxs
  ELSE IF Head(allTxs).chain = chain[1]
    THEN <<Head(allTxs)>> \o FilterChain(Tail(allTxs), chain)
  ELSE FilterChain(Tail(allTxs), chain)

\* filter with a `seen` set keyed by `${tx.chain}:${tx.txHash}`
RECURSIVE DedupByKey(_, _)
DedupByKey(allTxs, seen) ==
  IF allTxs = <<>> THEN <<>>
  ELSE LET key == <<Head(allTxs).chain, Head(allTxs).txHash>>
       IN IF key \in seen THEN DedupByKey(Tail(allTxs), seen)
          ELSE <<Head(allTxs)>> \o DedupByKey(Tail(allTxs), seen \cup {key})

\* sort((a, b) => new Date(b.timestamp) - new Date(a.timestamp)): a stable
\* sort, modelled as insertion from the right.
RECURSIVE InsertDesc(_, _)
InsertDesc(tx, sorted) ==
  IF sorted = <<>> THEN <<tx>>
  ELSE IF ParseTimestamp(Head(sorted).timestamp) > ParseTimestamp(tx.timestamp)
    THEN <<Head(sorted)>> \o InsertDesc(tx, Tail(sorted))
  ELSE <<tx>> \o sorted

RECURSIVE SortDesc(_)
SortDesc(list) ==
  IF list = <<>> THEN <<>> ELSE InsertDesc(Head(list), SortDesc(Tail(list)))

\* Mutant of CacheAfterSort: the sort is applied to the slots themselves.
CacheAfterSortInSlots(cache, chain) == [k \in DOMAIN cache |-> SortDesc(cache[k])]

\* allTxs.sort(...) sorts in place; allTxs is the array made by flat() (and
\* by the two filters), never an array held by whaleCache.
CacheAfterSort(cache, chain) == cache

\* The handler's response body for a cache state and a chain parameter.
ListTransactions(cache, chain) ==
  SortDesc(DedupByKey(FilterChain(FlatValues(cache, CacheKeyOrder), chain), {}))

GetTransactions(chain) ==
  /\ Running
  /\ response' = <<[route |-> "GET /transactions", chain |-> chain,
                     body |-> ListTransactions(whaleCache, chain)]>>
  /\ whaleCache' = CacheAfterSort(whaleCache, chain)
  /\ UNCHANGED <<alertedTxs, store, tasks, ticks, zone, exited>>

\* ------------------------------------------------------------------- spec
\* A record that carries both addresses.
Addressed(r) == r.sender # <<>> /\ r.receiver # <<>>

\* Responses in which every record carries its block time (hour 7) and both
\* addresses.
TimedRecords == {r \in RawRecords : r.time = <<7>> /\ Addressed(r)}

TimedResponses == SeqsUpTo(TimedRecords, MaxBatch)

\* The steps of the poll cycles.
CycleNext(networks, responses) ==
  \/ \E network \in networks : Tick(network)
  \/ \E t \in Tasks : FetchFail(t)
  \/ \E t \in Tasks, raw \in responses : FetchOk(t, raw)
  \/ \E t \in Tasks, error \in BOOLEAN : SubsDone(t, error)
  \/ \E t \in Tasks, ok \in BOOLEAN : SendDone(t, ok)
  \/ \E t \in Tasks : Finish(t)

SubscribeNext ==
  \E email \in BodyEmails, threshold \in BodyThresholds, error \in BOOLEAN :
    Subscribe(email, threshold, error)

QueryNext == \E chain \in QueryChains : GetTransactions(chain)

Next == CycleNext(Networks, RawResponses) \/ Clear \/ SubscribeNext \/ QueryNext

Spec == Init /\ [][Next]_vars

\* A machine whose zone is UTC.
UtcInit == Init /\ zone = "UTC"

\* A subscriptions table of one row.
OneRow == [e \in {EmailOrder[1]} |-> CHOOSE th \in Thresholds : TRUE]

\* The alert pipeline: poll cycles, reset and subscriptions (of one address;
\* the table starts in any state) on a UTC machine. The read handler is left
\* out: it writes nothing the pipeline reads.
DispatchNetworks == {"ethereum", "bitcoin"}

\* The address that subscribes while the pipeline runs.
LateSubscriber == EmailOrder[2]

DispatchNext ==
  \/ CycleNext(DispatchNetworks, TimedResponses)
  \/ Clear
  \/ \E threshold \in ValidBodyThresholds : Subscribe(LateSubscriber, threshold, FALSE)

DispatchSpec == UtcInit /\ [][DispatchNext]_vars

\* The cache and its read handler: the poll cycles of all four networks, with
\* responses whose records may lack the block time, and GET /transactions,
\* while the subscriptions table holds one row and neither a subscription nor
\* the 6-hour reset happens.
CacheInit == UtcInit /\ store = OneRow

CacheRecords == {r \in RawRecords : r.time \in {<<>>, <<7>>} /\ Addressed(r)}

CacheResponses == SeqsUpTo(CacheRecords, MaxBatch)

CacheNext == CycleNext(Networks, CacheResponses) \/ QueryNext

CacheSpec == CacheInit /\ [][CacheNext]_vars

\* The order of the read handler's list: two networks, block times on both
\* sides of the start of daylight saving time, a machine in either zone.
SortNetworks == {"bsc", "solana"}

SortRecords == {r \in RawRecords : r.time # <<>> /\ Addressed(r) /\ r.amount = 101}

SortResponses == SeqsUpTo(SortRecords, MaxBatch)

SortInit == Init /\ store = OneRow

SortNext == CycleNext(SortNetworks, SortResponses) \/ QueryNext

SortSpec == SortInit /\ [][SortNext]_vars

\* Failing cycles: the timers fire as long as the process
\* runs, and every awaited call settles.
FailNetworks == {"bsc", "bitcoin"}

FailResponses == SeqsUpTo(TimedRecords, 1)

FailNext == CycleNext(FailNetworks, FailResponses)

FailFairness ==
  /\ WF_vars(\E network \in FailNetworks : Tick(network))
  /\ \A t \in Tasks :
       /\ WF_vars(FetchFail(t) \/ \E raw \in FailResponses : FetchOk(t, raw))
       /\ WF_vars(\E error \in BOOLEAN : SubsDone(t, error))
       /\ WF_vars(\E ok \in BOOLEAN : SendDone(t, ok))
       /\ WF_vars(Finish(t))

FailSpec == UtcInit /\ [][FailNext]_vars /\ FailFairness

\* Normalization: every fetch succeeds, and the records of a response may
\* lack the block time, the sender or the receiver.
NormalizeNetworks == {"solana", "bitcoin"}

SparseRecords == {r \in RawRecords : r.amount = 101 /\ r.time \in {<<>>, <<7>>}}

SparseResponses == SeqsUpTo(SparseRecords, MaxBatch)

NormalizeNext ==
  \/ \E network \in NormalizeNetworks : Tick(network)
  \/ \E t \in Tasks, raw \in SparseResponses : FetchOk(t, raw)
  \/ \E t \in Tasks, error \in BOOLEAN : SubsDone(t, error)
  \/ \E t \in Tasks, ok \in BOOLEAN : SendDone(t, ok)
  \/ \E t \in Tasks : Finish(t)

NormalizeSpec == CacheInit /\ [][NormalizeNext]_vars

\* POST /subscribe with every request body, next to the poll cycles of one
\* network that read the table.
SubscribeCycles == {"bitcoin"}

SubscribeSpecNext == SubscribeNext \/ CycleNext(SubscribeCycles, FailResponses)

SubscribeSpec == UtcInit /\ [][SubscribeSpecNext]_vars

\* External calls that may never be answered: the timers fire and a finished
\* cycle ends, but nothing makes an awaited call settle (no call is made with
\* a timeout or an abort signal).
HangFairness ==
  /\ WF_vars(\E network \in FailNetworks : Tick(network))
  /\ \A t \in Tasks : WF_vars(Finish(t))

HangSpec == UtcInit /\ [][FailNext]_vars /\ HangFairness

\* ----------------------------------------------------------------- claims
\* What the dispatch in slot t has done, in terms of its batch.
SentFor(t, i) == {p[2] : p \in {q \in tasks[t].sent : q[1] = i}}

MatchingSubs(t, i) ==
  {tasks[t].subs[k].email : k \in {n \in 1 .. Len(tasks[t].subs) :
       tasks[t].subs[n].threshold <= tasks[t].txs[i].amount}}

KeyOf(t, i) == <<Chain(tasks[t]), tasks[t].txs[i].txHash>>

\* C1: a processAndAlert call made when the key chain:nativeId of one of its
\* transactions is already in the suppression set makes no delivery attempt
\* for that transaction, whatever the subscriber list, unless the set has
\* been cleared since the call.
C1_SuppressedTxNotAlerted ==
  \A t \in Tasks :
    \A i \in tasks[t].pre : SentFor(t, i) # {} => tasks[t].clr

\* A second cycle re-fetched a transaction already alerted: its dispatch is
\* over, a subscriber of its list matches the transaction, nothing was sent.
C1_Witness ==
  \E t \in Tasks :
    /\ tasks[t].pc = "done" /\ ~tasks[t].clr /\ ticks = 2
    /\ \E i \in tasks[t].pre :
         MatchingSubs(t, i) # {} /\ SentFor(t, i) = {} /\ i \in tasks[t].skipped

\* C2: a dispatch whose subscriber read failed attempts no delivery and adds
\* no key to the suppression set.
C2_FailedReadLeavesSuppressionUnchanged ==
  \A t \in Tasks :
    tasks[t].subsErr => tasks[t].sent = {} /\ tasks[t].marked = {}

\* C3: between two clears of the suppression set, no subscriber gets two
\* delivery attempts for the same (chain, nativeId): two dispatches that have
\* seen no clear never both send the same transaction to the same subscriber.
C3_AtMostOneDeliveryPerWindow ==
  \A t, u \in Tasks :
    (t # u /\ ~tasks[t].clr /\ ~tasks[u].clr) =>
      \A p \in tasks[t].sent, q \in tasks[u].sent :
        ~(p[2] = q[2] /\ KeyOf(t, p[1]) = KeyOf(u, q[1]))

\* C4: for every transaction a dispatch has gone through without finding it
\* suppressed, the subscribers of the fetched list it attempted a delivery to
\* are exactly those with threshold <= amount; every attempt of a dispatch
\* went to such a subscriber, and a suppressed transaction got none.
C4_DeliveryIffThresholdMet ==
  \A t \in Tasks :
    /\ \A i \in tasks[t].marked : SentFor(t, i) = MatchingSubs(t, i)
    /\ \A p \in tasks[t].sent : p[2] \in MatchingSubs(t, p[1])
    /\ \A i \in tasks[t].skipped : SentFor(t, i) = {}

\* One dispatch delivered a transaction whose amount equals the threshold and
\* delivered nothing for one whose amount is just below it.
C4_Witness ==
  \E t \in Tasks :
    \E i, k \in tasks[t].marked :
      /\ tasks[t].subs # <<>>
      /\ tasks[t].txs[i].amount = tasks[t].subs[1].threshold
      /\ tasks[t].subs[1].email \in SentFor(t, i)
      /\ tasks[t].txs[k].amount = tasks[t].subs[1].threshold - 1
      /\ SentFor(t, k) = {}

\* C5: after a send of a dispatch has thrown, the dispatch goes on: every
\* transaction it has passed was either skipped as suppressed or had all its
\* matching subscribers attempted and its key added, and when the dispatch is
\* over it has passed every transaction of the batch.
C5_FailedDeliveryIsolated ==
  \A t \in Tasks :
    tasks[t].failed # <<>> =>
      /\ tasks[t].pc \in {"send", "done"}
      /\ \A i \in 1 .. Len(tasks[t].txs) :
           i < tasks[t].i => i \in tasks[t].marked \cup tasks[t].skipped
      /\ \A i \in tasks[t].marked :
           /\ SentFor(t, i) = MatchingSubs(t, i)
           /\ ~tasks[t].clr => KeyOf(t, i) \in alertedTxs
      /\ tasks[t].pc = "done" =>
           /\ tasks[t].i = Len(tasks[t].txs) + 1
           /\ tasks[t].failed[1] \in tasks[t].marked

\* The send to the first subscriber threw for the first of two transactions;
\* the second subscriber was attempted for it, the second transaction was
\* processed too, and both keys are in the suppression set.
C5_Witness ==
  \E t \in Tasks :
    /\ tasks[t].pc = "done" /\ ~tasks[t].clr
    /\ Len(tasks[t].txs) = 2 /\ Len(tasks[t].subs) = 2
    /\ tasks[t].failed = <<1, tasks[t].subs[1].email>>
    /\ tasks[t].subs[2].email \in SentFor(t, 1)
    /\ SentFor(t, 2) # {}
    /\ tasks[t].marked = {1, 2}
    /\ KeyOf(t, 1) \in alertedTxs /\ KeyOf(t, 2) \in alertedTxs

\* C6: when a dispatch with a successfully fetched subscriber list is over,
\* the key of every transaction of its batch is in the suppression set,
\* however many subscribers matched, as long as no clear happened since the
\* dispatch was called.
C6_AllKeysSuppressedAfterDispatch ==
  \A t \in Tasks :
    (tasks[t].pc = "done" /\ ~tasks[t].subsErr /\ ~tasks[t].clr) =>
      \A i \in 1 .. Len(tasks[t].txs) : KeyOf(t, i) \in alertedTxs

\* A dispatch ended with no subscriber at all; its transaction is suppressed,
\* and a subscriber whose threshold it meets has been added since.
C6_Witness ==
  \E t \in Tasks :
    /\ tasks[t].pc = "done" /\ ~tasks[t].subsErr /\ ~tasks[t].clr
    /\ tasks[t].subs = <<>> /\ tasks[t].sent = {}
    /\ \E i \in 1 .. Len(tasks[t].txs) :
         /\ KeyOf(t, i) \in alertedTxs
         /\ \E e \in DOMAIN store : store[e] <= tasks[t].txs[i].amount

\* C7: no cache slot holds two entries with the same (chain, nativeId).
C7_NoDuplicateInSlot ==
  \A key \in DOMAIN whaleCache :
    \A a, b \in 1 .. Len(whaleCache[key]) :
      a # b => ~(/\ whaleCache[key][a].chain = whaleCache[key][b].chain
                 /\ whaleCache[key][a].txHash = whaleCache[key][b].txHash)

\* A cycle has just cached the batch of a response that repeated a hash.
C7_Witness ==
  \E t \in Tasks :
    /\ tasks[t].repeats /\ tasks[t].pc = "subs"
    /\ whaleCache[Chain(tasks[t])] = tasks[t].txs
    /\ Len(tasks[t].txs) = 1

\* The chain names of the data model.
ChainEnum == {"ETH", "BSC", "BTC", "SOL"}

\* C8: every cached Transaction has a chain field in {ETH, BSC, BTC, SOL} and
\* is stored in the slot named by that field.
C8_ChainFieldInEnum ==
  \A key \in DOMAIN whaleCache :
    \A a \in 1 .. Len(whaleCache[key]) :
      whaleCache[key][a].chain \in ChainEnum /\ whaleCache[key][a].chain = key

\* The network whose poll cycle feeds chain c.
NetworkOf(c) ==
  CASE c = "ETH" -> "ethereum"
    [] c = "BSC" -> "bsc"
    [] c = "BTC" -> "bitcoin"
    [] c = "SOL" -> "solana"

\* The batch most recently cached by the cycle of `network`.
LatestBatch(network) ==
  IF CacheKey(network) \in DOMAIN whaleCache THEN whaleCache[CacheKey(network)] ELSE <<>>

Entries(list) == {list[k] : k \in 1 .. Len(list)}

\* C9: GET /transactions?chain=c returns exactly the transactions most
\* recently cached by chain c's poll cycle, for c in {ETH, BSC, BTC, SOL}.
C9_FilteredReadReturnsChainBatch ==
  \A c \in ChainEnum :
    (response # <<>> /\ response[1].chain = <<c>>) =>
      /\ Entries(response[1].body) = Entries(LatestBatch(NetworkOf(c)))
      /\ Len(response[1].body) = Len(LatestBatch(NetworkOf(c)))

PairsOf(list) == {<<list[k].chain, list[k].txHash>> : k \in 1 .. Len(list)}

\* C10: with no chain filter the response holds the entries of all cache
\* slots and nothing else, each (chain, nativeId) pair exactly once.
C10_UnfilteredReadIsUnion ==
  (response # <<>> /\ response[1].chain = <<>>) =>
    LET body == response[1].body
    IN /\ Entries(body) = UNION {Entries(whaleCache[key]) : key \in DOMAIN whaleCache}
       /\ PairsOf(body) = UNION {PairsOf(whaleCache[key]) : key \in DOMAIN whaleCache}
       /\ \A a, b \in 1 .. Len(body) :
            a # b => <<body[a].chain, body[a].txHash>> # <<body[b].chain, body[b].txHash>>

\* An unfiltered read of a cache with entries in two slots, one of them the
\* slot of the ethereum cycle.
C10_Witness ==
  /\ response # <<>> /\ response[1].chain = <<>>
  /\ Len(response[1].body) >= 3
  /\ \E key \in DOMAIN whaleCache : key \notin InitialCacheKeys /\ whaleCache[key] # <<>>
  /\ \E key \in InitialCacheKeys : whaleCache[key] # <<>>

\* The read handler has just answered.
IsQuery == response # <<>> /\ response[1].route = "GET /transactions"

\* C11: the list returned by GET /transactions is in descending order of the
\* instant of the chain event: of two adjacent entries, the block time the
\* query service reported for the first is greater than or equal to that of
\* the second.
C11_ListOrderedByInstantDesc ==
  IsQuery =>
    \A k \in 1 .. Len(response[1].body) - 1 :
      response[1].body[k].instant >= response[1].body[k + 1].instant

\* C12: a poll cycle that ends at its fetch (the fetch or the parsing of the
\* body fails) leaves the shared state as it was: in the step that ends it,
\* the cache, the suppression set and the subscriptions table do not change,
\* the cycle has read no subscriber and attempted no delivery, and the other
\* cycles are untouched.
C12_FailedFetchChangesNothing ==
  [][\A t \in Tasks :
       (tasks[t].pc = "fetch" /\ tasks'[t].pc = "idle") =>
         /\ whaleCache' = whaleCache
         /\ alertedTxs' = alertedTxs
         /\ store' = store
         /\ tasks'[t] = IdleTask
         /\ \A u \in Tasks \ {t} : tasks'[u] = tasks[u]]_vars

\* The fetch of a cycle failed after an earlier cycle of the same network
\* had cached and dispatched a batch: the slot still holds that batch and
\* its keys are still suppressed.
C12_Witness ==
  /\ exited # <<>> /\ exited[1].error = "FetchError"
  /\ ticks = 2
  /\ \A t \in Tasks : tasks[t].pc = "idle"
  /\ whaleCache[CacheKey(exited[1].network)] # <<>>
  /\ \A k \in 1 .. Len(whaleCache[CacheKey(exited[1].network)]) :
       TxKey(CacheKey(exited[1].network), whaleCache[CacheKey(exited[1].network)][k])
         \in alertedTxs

\* C13: no failure of a poll cycle ends the process: whenever the scheduler
\* has a tick left (ticks < MaxTicks), a further cycle is started later on,
\* when the timers fire as long as the process runs and every awaited call
\* settles.
C13_PollingGoesOnAfterFailure == (ticks < MaxTicks) ~> (ticks = MaxTicks)

\* C14: a successful poll cycle for chain c replaces c's cache slot wholesale:
\* in the step in which the cycle's response arrives and is cached, the slot
\* named c becomes exactly the batch of this cycle (the deduplicated,
\* normalized records handed to the dispatch), and every other slot of the
\* cache is what it was, for c in {ETH, BSC, BTC, SOL}.
C14_SuccessfulCycleReplacesSlot ==
  [][\A t \in Tasks, c \in ChainEnum :
       (/\ tasks[t].pc = "fetch" /\ tasks[t].network = NetworkOf(c)
        /\ tasks'[t].pc \in {"subs", "done"}) =>
         /\ whaleCache'[c] = tasks'[t].txs
         /\ \A k \in DOMAIN whaleCache' \ {c} :
              k \in DOMAIN whaleCache /\ whaleCache'[k] = whaleCache[k]]_vars

\* C15: the payload of every delivery attempt equals the transaction of the
\* batch it is made for, field by field: chain, amount, sender, receiver,
\* timestamp and native identifier.
C15_PayloadEqualsCachedTransaction ==
  \A t \in Tasks :
    tasks[t].pc = "send" =>
      LET tx == tasks[t].txs[tasks[t].i]
          payload == tasks[t].payload[1]
      IN /\ payload.chain = tx.chain
         /\ payload.amount = tx.amount
         /\ payload.sender = tx.sender
         /\ payload.receiver = tx.receiver
         /\ payload.timestamp = tx.timestamp
         /\ payload.txHash = tx.txHash

\* C16: normalization never throws and never aborts the cycle: no cycle ends
\* in the step in which its response arrives (the batch is always cached and
\* dispatched), and every cached transaction has a string in its sender and
\* receiver fields, whatever optional field the raw record lacked.
C16_NormalizationNeverThrows ==
  /\ [][\A t \in Tasks : tasks[t].pc = "fetch" => tasks'[t].pc # "idle"]_vars
  /\ [](\A key \in DOMAIN whaleCache :
          \A k \in 1 .. Len(whaleCache[key]) :
            whaleCache[key][k].sender # <<>> /\ whaleCache[key][k].receiver # <<>>)

\* C17: cycles of the same chain never overlap: no two cycles of one network
\* are in flight (awaiting their fetch, their subscriber read or a send) at
\* the same time.
C17_NoOverlapPerChain ==
  \A t, u \in Tasks :
    (/\ t # u
     /\ tasks[t].pc \in {"fetch", "subs", "send"}
     /\ tasks[u].pc \in {"fetch", "subs", "send"}) =>
      tasks[t].network # tasks[u].network

\* The entries of a response body whose chain field is `key`.
BodyOf(key) == FilterChain(response[1].body, <<key>>)

\* C18: a query sees, for each chain, exactly one complete batch written by a
\* single cycle: a slot changes only in the step in which a cycle's response
\* arrives, and then becomes that cycle's whole batch at once; and the entries
\* of a chain in a response are all the entries of that chain's slot, or none
\* when the filter names another chain.
C18_QuerySeesWholeBatches ==
  /\ [][\A key \in DOMAIN whaleCache' :
          (key \notin DOMAIN whaleCache \/ whaleCache'[key] # whaleCache[key]) =>
            \E t \in Tasks :
              /\ tasks[t].pc = "fetch" /\ CacheKey(tasks[t].network) = key
              /\ tasks'[t].pc \in {"subs", "done"}
              /\ whaleCache'[key] = tasks'[t].txs]_vars
  /\ [](IsQuery =>
          \A key \in DOMAIN whaleCache :
            IF response[1].chain \in {<<>>, <<key>>}
              THEN /\ Entries(BodyOf(key)) = Entries(whaleCache[key])
                   /\ Len(BodyOf(key)) = Len(whaleCache[key])
              ELSE BodyOf(key) = <<>>)

\* An unfiltered query answered while one cycle awaits its fetch and a cycle
\* of another network awaits a send: the response holds the two entries that
\* cycle has cached, and nothing of the cycle still fetching.
C18_Witness ==
  /\ IsQuery /\ response[1].chain = <<>>
  /\ \E t, u \in Tasks :
       /\ tasks[t].pc = "fetch" /\ tasks[u].pc = "send"
       /\ Chain(tasks[t]) # Chain(tasks[u])
       /\ Len(tasks[u].txs) = 2
       /\ LatestBatch(tasks[u].network) = tasks[u].txs
       /\ BodyOf(Chain(tasks[u])) = tasks[u].txs
       /\ BodyOf(Chain(tasks[t])) = <<>>

\* The subscribe handler has just answered.
IsSubscribe == response # <<>> /\ response[1].route = "POST /subscribe"

\* Threshold fields that denote a number greater than 0.
PositiveNumerals == {"101"}

\* C19: a subscribe request whose address is missing or not email-shaped, or
\* whose threshold is not a number greater than 0, is answered with an error
\* and leaves the subscriptions table as it was; a request that changes the
\* table was valid and answered with success; and every row of the table has
\* a threshold greater than 0.
C19_InvalidSubscribeRejected ==
  /\ [][IsSubscribe' =>
          LET req == response'[1]
              valid == req.email \in Emails /\ req.threshold \in PositiveNumerals
          IN /\ ~valid => (req.status = 400 /\ store' = store)
             /\ store' # store => (valid /\ req.status = 200)]_vars
  /\ [](\A e \in DOMAIN store : store[e] > 0)

\* A request with a well-formed address that has no row yet and the threshold
\* "-5" has been answered with 400, and the address still has no row.
C19_Witness ==
  /\ IsSubscribe
  /\ response[1].status = 400
  /\ response[1].email \in Emails /\ response[1].threshold = "-5"
  /\ response[1].email \notin DOMAIN store

\* C20: GET /transactions has no side effect and is deterministic: the step
\* that answers a query leaves the cache (every slot, contents and order), the
\* suppression set, the subscriptions table and the poll cycles as they were
\* and starts no cycle, and a query that follows a query with the same filter
\* returns the same list.
C20_QueryHasNoSideEffect ==
  [][IsQuery' =>
       /\ whaleCache' = whaleCache
       /\ alertedTxs' = alertedTxs
       /\ store' = store
       /\ tasks' = tasks
       /\ ticks' = ticks
       /\ (IsQuery /\ response[1].chain = response'[1].chain) =>
            response'[1].body = response[1].body]_vars

\* A query has been answered with a list whose order differs from the order
\* of the slot it comes from (the sort moved the later transaction to the
\* front), and the slot still has its own order.
C20_Witness ==
  /\ IsQuery
  /\ \E key \in DOMAIN whaleCache :
       /\ Len(whaleCache[key]) = 2
       /\ whaleCache[key][1].instant < whaleCache[key][2].instant
       /\ response[1].body = <<whaleCache[key][2], whaleCache[key][1]>>

\* C21: no operation blocks indefinitely: every poll cycle that has started
\* eventually ends (its slot is free again, by completion or by failure) as
\* long as the process runs, even when the query service, the subscriber
\* store or the alert channel never answers.
C21_EveryCycleTerminates ==
  \A t \in Tasks : (tasks[t].pc # "idle") ~> (tasks[t].pc = "idle" \/ ~Running)

\* A record the cycle of `network` admits: any record, for Bitcoin an output
\* whose value exceeds the minimum.
Admitted(network, r) == network # "bitcoin" \/ r.amount > minAmount

\* The positions of `raw` that hold the first admitted record of their id.
FirstAdmitted(network, raw) ==
  {k \in 1 .. Len(raw) :
     /\ Admitted(network, raw[k])
     /\ \A m \in 1 .. k - 1 :
          ~(Admitted(network, raw[m]) /\ raw[m].hash = raw[k].hash)}

\* The k-th smallest element of a set of numbers.
Nth(S, k) == CHOOSE x \in S : Cardinality({y \in S : y < x}) = k - 1

\* C22: in-batch deduplication collapses to first-seen and keeps the order:
\* in the step in which a cycle caches the batch of a response, the slot
\* holds, in response order, the normalization of the first admitted record
\* of each native id and nothing else.
C22_DedupKeepsFirstSeenInOrder ==
  [][\A t \in Tasks :
       (tasks[t].pc = "fetch" /\ tasks'[t].received # <<>>) =>
         LET network == tasks[t].network
             raw == tasks'[t].received[1]
             batch == whaleCache'[CacheKey(network)]
             first == FirstAdmitted(network, raw)
         IN /\ Len(batch) = Cardinality(first)
            /\ \A k \in 1 .. Len(batch) :
                 /\ ~toCSTThrows(raw[Nth(first, k)].time)
                 /\ batch[k] = Normalize(network, raw[Nth(first, k)])]_vars

\* A cycle other than Bitcoin's has just cached the batch of a response that
\* names one id twice with different amounts: the slot holds the first record
\* alone.
C22_Witness ==
  \E t \in Tasks :
    /\ tasks[t].pc = "subs" /\ tasks[t].received # <<>>
    /\ tasks[t].network # "bitcoin"
    /\ LET raw == tasks[t].received[1]
       IN /\ Len(raw) = 2
          /\ raw[1].hash = raw[2].hash /\ raw[1].amount # raw[2].amount
          /\ LatestBatch(tasks[t].network) = <<Normalize(tasks[t].network, raw[1])>>

\* C23: the Bitcoin cycle filters with a strict comparison applied before the
\* deduplication: every cached BTC transaction has an amount greater than the
\* minimum, and in the step in which the cycle caches the batch of a response
\* the slot holds the hash of every output of the response whose value exceeds
\* the minimum.
C23_BitcoinStrictFilterBeforeDedup ==
  /\ [](\A k \in 1 .. Len(whaleCache["BTC"]) : whaleCache["BTC"][k].amount > minAmount)
  /\ [][\A t \in Tasks :
          (/\ tasks[t].pc = "fetch" /\ tasks[t].network = "bitcoin"
           /\ tasks'[t].received # <<>>) =>
            LET raw == tasks'[t].received[1]
            IN \A k \in 1 .. Len(raw) :
                 raw[k].amount > minAmount =>
                   \E m \in 1 .. Len(whaleCache'["BTC"]) :
                     whaleCache'["BTC"][m].txHash = raw[k].hash]_vars

\* The Bitcoin cycle has just cached the batch of a response whose first
\* output equals the minimum and whose second output, of the same hash,
\* exceeds it: the slot holds the second output alone.
C23_Witness ==
  \E t \in Tasks :
    /\ tasks[t].pc = "subs" /\ tasks[t].received # <<>>
    /\ tasks[t].network = "bitcoin"
    /\ LET raw == tasks[t].received[1]
       IN /\ Len(raw) = 2
          /\ raw[1].hash = raw[2].hash
          /\ raw[1].amount = minAmount /\ raw[2].amount > minAmount
          /\ whaleCache["BTC"] = <<Normalize("bitcoin", raw[2])>>

\* C24: a poll that yields no admitted record (an empty or absent list, or
\* Bitcoin outputs none of which exceeds the minimum) is an empty batch, not a
\* failure: in the step in which the response arrives, the slot of the chain
\* becomes the empty list, the process goes on, the suppression set and the
\* subscriptions table are what they were, and the dispatch returns without
\* reading the subscribers or attempting a delivery; the same holds until the
\* cycle ends.
C24_EmptyBatchIsNoFailure ==
  /\ [][\A t \in Tasks, c \in ChainEnum :
          (/\ tasks[t].pc = "fetch" /\ tasks[t].network = NetworkOf(c)
           /\ tasks'[t].received # <<>>
           /\ FirstAdmitted(tasks[t].network, tasks'[t].received[1]) = {}) =>
            /\ whaleCache'[c] = <<>>
            /\ LatestBatch(tasks[t].network)' = <<>>
            /\ tasks'[t].pc = "done"
            /\ alertedTxs' = alertedTxs /\ store' = store /\ exited' = exited]_vars
  /\ [](\A t \in Tasks :
          (/\ tasks[t].received # <<>>
           /\ FirstAdmitted(tasks[t].network, tasks[t].received[1]) = {}) =>
            /\ tasks[t].pc = "done"
            /\ tasks[t].txs = <<>> /\ tasks[t].subs = <<>> /\ ~tasks[t].subsErr
            /\ tasks[t].sent = {} /\ tasks[t].marked = {} /\ tasks[t].skipped = {}
            /\ tasks[t].payload = <<>> /\ tasks[t].failed = <<>>)
  /\ [][\A t \in Tasks :
          (tasks[t].pc = "done" /\ tasks[t].received # <<>> /\ tasks'[t].pc = "idle") =>
            /\ alertedTxs' = alertedTxs /\ store' = store
            /\ whaleCache' = whaleCache /\ exited' = exited]_vars

\* A cycle has received an empty list while a key of its chain, from the
\* batch of another cycle, is suppressed: the slot is empty, the key is still
\* suppressed and the dispatch has returned.
C24_Witness ==
  \E t \in Tasks :
    /\ tasks[t].pc = "done" /\ tasks[t].received = <<<<>>>>
    /\ whaleCache[Chain(tasks[t])] = <<>>
    /\ \E key \in alertedTxs : key[1] = Chain(tasks[t])
    /\ Running

\* The Bitcoin cycle has just received outputs none of which exceeds the
\* minimum: its batch is empty.
C24_FilteredWitness ==
  \E t \in Tasks :
    /\ tasks[t].pc = "done" /\ tasks[t].network = "bitcoin"
    /\ tasks[t].received # <<>> /\ tasks[t].received[1] # <<>>
    /\ whaleCache["BTC"] = <<>>


====
